---- MODULE Spec2Model ----
(***************************************************************************)
(* PyKIDS backend (src/app.py, src/pykids-backend/app.py): three Flask      *)
(* handlers over one PostgreSQL table `users`.                              *)
(*                                                                          *)
(*   GET  /api/users/<userId>/profile    get_user_profile                   *)
(*   POST /api/users/<userId>/profile    update_user_profile                *)
(*   PUT  /api/users/<userId>/progress   update_user_progress               *)
(*                                                                          *)
(* Each request runs on its own connection.  A handler is one action; it    *)
(* advances the handler from one access of the table to the next, the       *)
(* handler-local code between two accesses being folded into the step that  *)
(* follows it.  The profile handlers of src/pykids-backend/app.py are       *)
(* line-for-line the ones of src/app.py and are modelled by the same        *)
(* definitions.                                                             *)
(*                                                                          *)
(* Nullable values (Python None, JSON null, SQL NULL, an absent JSON key    *)
(* read with dict.get) are options: None is {} and a value v is {v}.        *)
(***************************************************************************)
EXTENDS Integers, FiniteSets, Sequences, TLC

VARIABLES
    users,   \* the table `users`: a function from the ids present to rows
    txn,     \* per connection: where its handler stands, and its locals
    now,     \* the clock read by datetime.now()
    out,     \* the latest response sent, NoOut before the first
    credits, \* per user and topic: the updates that changed total_score
    hist     \* the progress calls answered so far (recorded by SpecCalls)

vars == <<users, txn, now, out, credits, hist>>

-----------------------------------------------------------------------------
(* Bounds of the model.                                                     *)

MaxTime == 2
MaxScore == 1
MaxCalls == 2

Users == {"u1", "u2"}
Conns == {"c1", "c2"}
Modules == {"m1", "m2"}
Topics == {"t1", "t2"}
Avatars == {"a1"}

-----------------------------------------------------------------------------
(* Values.                                                                  *)

None == {}
Some(v) == {v}
Val(o) == CHOOSE v \in o : TRUE

\* Python truthiness of an optional string: None and "" are falsy.
Truthy(o) == o # None /\ o # Some("")

\* dict.get(key, default) on a dict modelled as a function.
Get(d, k, default) == IF k \in DOMAIN d THEN d[k] ELSE default

EmptyDict == [k \in {} |-> None]

\* The HTTP statuses the handlers return.
Ok == 200
InvalidRequest == 400
Unauthenticated == 401
Unauthorized == 403
NotFound == 404
InternalError == 500

\* What the Authorization header carries: no header, a header that is not
\* "Bearer ...", a bearer token verify_id_token rejects, or a valid token of
\* a user (named by its subject).
AuthValues == {"absent", "basic", "invalid"} \cup Users

StrOpts(S) == {None, Some("")} \cup {Some(s) : s \in S}
ScoreOpts == {None} \cup {Some(n) : n \in 0..MaxScore}

-----------------------------------------------------------------------------
(* Requests.                                                                *)

\* request.get_json() of a request without a JSON body.
NoBody == [json |-> FALSE]

ProfileBodies ==
    {[json |-> TRUE, selectedAvatar |-> a, email |-> e] :
        a \in StrOpts(Avatars), e \in {None}}

\* Well-formed completion events.
ValidEvents ==
    {[json |-> TRUE, moduleId |-> Some(m), topicId |-> Some(t),
      completed |-> Some(c), score |-> s] :
        m \in Modules, t \in Topics, c \in BOOLEAN, s \in ScoreOpts}

\* Events with a missing or empty moduleId or topicId, or without completed.
MalformedEvents ==
    {[json |-> TRUE, moduleId |-> m, topicId |-> t, completed |-> c,
      score |-> Some(1)] :
        m \in StrOpts({"m1"}), t \in StrOpts({"t1"}), c \in {None, Some(TRUE)}}
    \ ValidEvents

ProgressBodies == ValidEvents \cup MalformedEvents

Bodies(kind) ==
    CASE kind = "get_profile" -> {NoBody}
      [] kind = "post_profile" -> ProfileBodies \cup {NoBody}
      [] kind = "put_progress" -> ProgressBodies \cup {NoBody}

\* The body carried by the requests the access guard turns away (no handler
\* reads the body of such a request).
SampleBody(kind) ==
    CASE kind = "get_profile" -> NoBody
      [] kind = "post_profile" ->
            [json |-> TRUE, selectedAvatar |-> Some("a1"), email |-> None]
      [] kind = "put_progress" ->
            [json |-> TRUE, moduleId |-> Some("m1"), topicId |-> Some("t1"),
             completed |-> Some(TRUE), score |-> Some(1)]

Requests(kind) ==
    {r \in {[kind |-> kind, userId |-> u, auth |-> a, data |-> d] :
                u \in Users, a \in AuthValues, d \in Bodies(kind)} :
        r.auth # r.userId => r.data = SampleBody(kind)}

-----------------------------------------------------------------------------
(* The access guard, the same first lines in the three handlers.            *)

\* auth.verify_id_token(token): the decoded token, or an exception.
VerifyIdToken(auth) ==
    IF auth \in Users
    THEN [raised |-> FALSE, uid |-> auth, email |-> Some("token-mail")]
    ELSE [raised |-> TRUE]

\* The guard without the comparison of the token's uid with the path's.
AccessGuardWithoutUidCheck(req) ==
    IF req.auth \in {"absent", "basic"} THEN Unauthenticated
    ELSE IF VerifyIdToken(req.auth).raised THEN InternalError
    ELSE Ok

\* The guard without the test of the Authorization header.
AccessGuardWithoutHeaderCheck(req) ==
    IF VerifyIdToken(req.auth).raised THEN InternalError
    ELSE IF VerifyIdToken(req.auth).uid # req.userId THEN Unauthorized
    ELSE Ok

\* Ok when the caller may go on, else the status the handler answers with:
\* 401 without a Bearer header, 500 when verify_id_token raises (the
\* handler's `except Exception`), 403 when the token's uid is not the path's.
AccessGuard(req) ==
    IF req.auth \in {"absent", "basic"} THEN Unauthenticated
    ELSE IF VerifyIdToken(req.auth).raised THEN InternalError
    ELSE IF VerifyIdToken(req.auth).uid # req.userId THEN Unauthorized
    ELSE Ok

-----------------------------------------------------------------------------
(* The table.                                                               *)

\* cursor.fetchone() after SELECT ... FROM users WHERE id = userId.
SelectUser(tbl, userId) ==
    IF userId \in DOMAIN tbl THEN Some(tbl[userId]) ELSE None

\* The row of INSERT INTO users (...) VALUES (...).
NewRow(email, selected_avatar, created_at) ==
    [email |-> email,
     selected_avatar |-> selected_avatar,
     progress |-> EmptyDict,
     total_score |-> 0,
     created_at |-> created_at,
     last_active_lesson |-> None]

\* `email or decoded_token.get('email', '')`
EmailOf(email, decoded_token) ==
    IF Truthy(email) THEN email ELSE decoded_token.email

\* The table after INSERT of a row for userId.
InsertUser(tbl, userId, row) ==
    [u \in DOMAIN tbl \cup {userId} |-> IF u = userId THEN row ELSE tbl[u]]

\* The table after UPDATE users SET selected_avatar = ... with no WHERE.
SetAvatarInEveryRow(tbl, userId, selected_avatar) ==
    [u \in DOMAIN tbl |-> [tbl[u] EXCEPT !.selected_avatar = selected_avatar]]

\* The table after UPDATE users SET last_active_lesson = ... WHERE id =
\* userId: the avatar written to the wrong column.
SetAvatarInWrongColumn(tbl, userId, selected_avatar) ==
    [u \in DOMAIN tbl |->
        IF u = userId
        THEN [tbl[u] EXCEPT !.last_active_lesson = selected_avatar]
        ELSE tbl[u]]

\* The table after UPDATE users SET selected_avatar = ... WHERE id = userId.
SetAvatar(tbl, userId, selected_avatar) ==
    [u \in DOMAIN tbl |->
        IF u = userId THEN [tbl[u] EXCEPT !.selected_avatar = selected_avatar]
        ELSE tbl[u]]

\* The table after UPDATE users SET progress = ..., total_score = ...,
\* last_active_lesson = ... WHERE id = userId.
SetProgress(tbl, userId, progress, total_score, last_active_lesson) ==
    [u \in DOMAIN tbl |->
        IF u = userId
        THEN [tbl[u] EXCEPT !.progress = progress,
                            !.total_score = total_score,
                            !.last_active_lesson = last_active_lesson]
        ELSE tbl[u]]

-----------------------------------------------------------------------------
(* update_user_progress: validation and merge.                              *)

\* `completed is None` in the place of line 137's `completed is null`.
IsNullReadAsNone(completed) == [raised |-> FALSE, value |-> completed = None]

\* Line 137 evaluates `completed is null`.  The module binds no name `null`
\* (Python's is None), so the evaluation raises NameError.
IsNull(completed) == [raised |-> TRUE]

\* `if not module_id or not topic_id or completed is null`, left to right
\* with short-circuit: 400 when moduleId or topicId is falsy; otherwise the
\* third operand is evaluated, and its NameError reaches the handler's
\* `except Exception`, which answers 500.
Validate(data) ==
    IF ~Truthy(data.moduleId) \/ ~Truthy(data.topicId) THEN InvalidRequest
    ELSE IF IsNull(data.completed).raised THEN InternalError
    ELSE IF IsNull(data.completed).value THEN InvalidRequest
    ELSE Ok

\* current_progress.get(module_id, {}).get(topic_id, {})
TopicOf(progress, m, t) == Get(Get(progress, m, EmptyDict), t, EmptyDict)

\* Lines 158-172: the new progress, total_score and last_active_lesson
\* computed from the row read by the SELECT (`user`), the event (`data`) and
\* datetime.now() (`t`).
Merge(user, data, t) ==
    LET module_id == Val(data.moduleId)
        topic_id == Val(data.topicId)
        completed == Val(data.completed)
        score == data.score
        current_progress == user.progress
        current == TopicOf(current_progress, module_id, topic_id)
        is_new_completion == completed /\ ~Get(current, "completed", FALSE)
        status ==
            [completed |-> completed,
             score |-> IF score # None THEN Val(score)
                       ELSE Get(current, "score", 0),
             completedAt |-> IF completed THEN Some(t)
                             ELSE Get(current, "completedAt", None)]
        topics == Get(current_progress, module_id, EmptyDict)
        new_score == IF is_new_completion /\ score # None THEN Val(score) ELSE 0
    IN  [progress |->
            [m \in DOMAIN current_progress \cup {module_id} |->
                IF m = module_id
                THEN [tp \in DOMAIN topics \cup {topic_id} |->
                        IF tp = topic_id THEN status ELSE topics[tp]]
                ELSE current_progress[m]],
         total_score |-> user.total_score + new_score,
         last_active_lesson |->
            Some([moduleId |-> module_id, topicId |-> topic_id])]

-----------------------------------------------------------------------------
(* State.                                                                   *)

Idle == [pc |-> "idle"]
NoOut == [kind |-> "none"]

Keys == Users \X Modules \X Topics

Init ==
    /\ users = EmptyDict
    /\ txn = [c \in Conns |-> Idle]
    /\ now = 1
    /\ out = NoOut
    /\ credits = [k \in Keys |-> 0]
    /\ hist = << >>

\* How a request stands to the access guard and to validation, in the
\* words of the error taxonomy.
AuthClass(req) ==
    IF req.auth \in {"absent", "basic", "invalid"} THEN req.auth
    ELSE IF req.auth = req.userId THEN "self" ELSE "other"

BodyClass(req) ==
    IF ~req.data.json THEN "absent"
    ELSE IF req.kind = "post_profile"
    THEN (IF Truthy(req.data.selectedAvatar) THEN "avatar" ELSE "no_avatar")
    ELSE IF ~Truthy(req.data.moduleId) \/ ~Truthy(req.data.topicId)
    THEN "no_ids"
    ELSE IF req.data.completed = None THEN "no_completed"
    ELSE "valid"

\* The handler on connection c returns: the table becomes tbl and the
\* response is recorded in `out`.  `read` tells whether the handler read
\* the table before it answered, `found` whether its SELECT returned a row,
\* and `during` how many progress calls were answered between its SELECT and
\* its return.
Return(c, req, status, read, tbl) ==
    /\ users' = tbl
    /\ txn' = [txn EXCEPT ![c] = Idle]
    /\ out' = [kind |-> req.kind, auth |-> AuthClass(req),
               body |-> BodyClass(req), status |-> status,
               read |-> read, changed |-> tbl # users,
               found |-> /\ read
                         /\ IF txn[c].pc = "idle"
                            THEN SelectUser(users, req.userId) # None
                            ELSE txn[c].user # None,
               during |-> IF txn[c].pc = "idle" THEN 0
                          ELSE Len(hist) - txn[c].since]

\* The handler on connection c has run its SELECT, which returned `user`,
\* and goes on to its write.  `since` is the number of progress calls
\* answered when the request arrived.
Await(c, pc, req, user) ==
    /\ txn' = [txn EXCEPT ![c] = [pc |-> pc, req |-> req, user |-> user,
                                  since |-> Len(hist)]]
    /\ UNCHANGED <<users, out>>

\* datetime.now(): the clock is read, and may have advanced by the next read.
ClockAfterRead == {t \in {now, now + 1} : t <= MaxTime}

-----------------------------------------------------------------------------
(* The handlers.  `req` is the request the client sends on connection c,    *)
(* or the one the connection is serving.                                    *)

\* get_user_profile: guard, SELECT, answer.
GetUserProfile(c, req) ==
    LET user == SelectUser(users, req.userId) IN
    /\ txn[c] = Idle
    /\ req.kind = "get_profile"
    /\ IF AccessGuard(req) # Ok
       THEN Return(c, req, AccessGuard(req), FALSE, users)
       ELSE IF user = None
       THEN Return(c, req, NotFound, TRUE, users)
       ELSE Return(c, req, Ok, TRUE, users)
    /\ UNCHANGED <<now, credits>>

\* update_user_profile with selectedAvatar required before the SELECT,
\* whether or not the row exists.
ProfileSelectRequiringAvatar(c, req) ==
    LET user_exists == SelectUser(users, req.userId) IN
    /\ IF AccessGuard(req) # Ok
       THEN Return(c, req, AccessGuard(req), FALSE, users)
       ELSE IF ~req.data.json
       THEN Return(c, req, InternalError, FALSE, users)
       ELSE IF ~Truthy(req.data.selectedAvatar)
       THEN Return(c, req, InvalidRequest, FALSE, users)
       ELSE Await(c, "profile", req, user_exists)
    /\ UNCHANGED now

\* update_user_profile up to its SELECT (lines 65-89).
ProfileSelect(c, req) ==
    LET user_exists == SelectUser(users, req.userId) IN
    /\ IF AccessGuard(req) # Ok
       THEN Return(c, req, AccessGuard(req), FALSE, users)
       ELSE IF ~req.data.json
       THEN Return(c, req, InternalError, FALSE, users)
       ELSE IF user_exists # None /\ ~Truthy(req.data.selectedAvatar)
       THEN Return(c, req, InvalidRequest, TRUE, users)
       ELSE Await(c, "profile", req, user_exists)
    /\ UNCHANGED now

\* The id column is the table's key: an INSERT of an id that is present
\* raises, and the handler's `except Exception` answers 500.
UniqueViolation(tbl, userId) == userId \in DOMAIN tbl

\* update_user_profile writing the row anew, as at its creation, where it
\* should UPDATE it.
ProfileWriteReplacingRow(c) ==
    LET req == txn[c].req
        selected_avatar == req.data.selectedAvatar
        email == EmailOf(req.data.email, VerifyIdToken(req.auth))
    IN  /\ Return(c, req, Ok, TRUE,
                  InsertUser(users, req.userId,
                             NewRow(email, selected_avatar, now)))
        /\ now' \in ClockAfterRead

\* update_user_profile from its UPDATE or INSERT to its return (lines 87-116).
ProfileWrite(c) ==
    LET req == txn[c].req
        user_exists == txn[c].user
        selected_avatar == req.data.selectedAvatar
        email == EmailOf(req.data.email, VerifyIdToken(req.auth))
    IN  IF user_exists # None
        THEN /\ IF req.userId \in DOMAIN users
                THEN Return(c, req, Ok, TRUE,
                            SetAvatar(users, req.userId, selected_avatar))
                ELSE Return(c, req, InternalError, TRUE, users)
             /\ UNCHANGED now
        ELSE /\ IF UniqueViolation(users, req.userId)
                THEN Return(c, req, InternalError, TRUE, users)
                ELSE Return(c, req, Ok, TRUE,
                            InsertUser(users, req.userId,
                                       NewRow(email, selected_avatar, now)))
             /\ now' \in ClockAfterRead

UpdateUserProfile(c, req) ==
    /\ req.kind = "post_profile"
    /\ CASE txn[c].pc = "idle" -> ProfileSelect(c, req)
         [] txn[c].pc = "profile" -> req = txn[c].req /\ ProfileWrite(c)
         [] OTHER -> FALSE
    /\ UNCHANGED credits

\* update_user_progress with last_active_lesson written and committed in a
\* statement of its own, ahead of the validation.
ProgressSelectWritingLastActiveFirst(c, req) ==
    LET user == SelectUser(users, req.userId)
        marked == [u \in DOMAIN users |->
                     IF u = req.userId
                     THEN [users[u] EXCEPT !.last_active_lesson =
                             Some([moduleId |-> req.data.moduleId,
                                   topicId |-> req.data.topicId])]
                     ELSE users[u]]
    IN
    /\ IF AccessGuard(req) # Ok
       THEN Return(c, req, AccessGuard(req), FALSE, users)
       ELSE IF ~req.data.json
       THEN Return(c, req, InternalError, FALSE, users)
       ELSE IF Validate(req.data) # Ok
       THEN Return(c, req, Validate(req.data), TRUE, marked)
       ELSE IF user = None
       THEN Return(c, req, NotFound, TRUE, users)
       ELSE Await(c, "progress", req, user)
    /\ UNCHANGED now

\* update_user_progress up to its SELECT (lines 123-156).
ProgressSelect(c, req) ==
    LET user == SelectUser(users, req.userId) IN
    /\ IF AccessGuard(req) # Ok
       THEN Return(c, req, AccessGuard(req), FALSE, users)
       ELSE IF ~req.data.json
       THEN Return(c, req, InternalError, FALSE, users)
       ELSE IF Validate(req.data) # Ok
       THEN Return(c, req, Validate(req.data), FALSE, users)
       ELSE IF user = None
       THEN Return(c, req, NotFound, TRUE, users)
       ELSE Await(c, "progress", req, user)
    /\ UNCHANGED now

\* update_user_progress from the merge to its return (lines 158-192).  As
\* the code stands no request gets here: Validate never answers Ok.
ProgressWrite(c) ==
    LET req == txn[c].req
        user == txn[c].user
        merged == Merge(Val(user), req.data, now)
    IN  /\ IF req.userId \in DOMAIN users
           THEN Return(c, req, Ok, TRUE,
                       SetProgress(users, req.userId, merged.progress,
                                   merged.total_score,
                                   merged.last_active_lesson))
           ELSE Return(c, req, InternalError, TRUE, users)
        /\ now' \in ClockAfterRead

\* The number of updates that changed the user's total_score, per topic
\* (counted up to 2).
CreditsAfter(req, tbl) ==
    IF /\ req.userId \in DOMAIN users
       /\ tbl[req.userId].total_score # users[req.userId].total_score
    THEN LET k == <<req.userId, Val(req.data.moduleId), Val(req.data.topicId)>>
         IN  [credits EXCEPT ![k] = IF @ < 2 THEN @ + 1 ELSE @]
    ELSE credits

UpdateUserProgress(c, req) ==
    /\ req.kind = "put_progress"
    /\ CASE txn[c].pc = "idle" -> ProgressSelect(c, req)
         [] txn[c].pc = "progress" -> req = txn[c].req /\ ProgressWrite(c)
         [] OTHER -> FALSE
    /\ credits' = CreditsAfter(req, users')

AllRequests ==
    Requests("get_profile") \cup Requests("post_profile")
        \cup Requests("put_progress")

Next ==
    \E c \in Conns, req \in AllRequests :
        \/ GetUserProfile(c, req) /\ UNCHANGED hist
        \/ UpdateUserProfile(c, req) /\ UNCHANGED hist
        \/ UpdateUserProgress(c, req) /\ UNCHANGED hist

Spec == Init /\ [][Next]_vars

-----------------------------------------------------------------------------
(* One user's clients: the well-formed calls user u1 sends with its own     *)
(* token, to create its profile and to report progress on the topics of     *)
(* module m1, with a positive score or none.  `hist` records each progress  *)
(* call when it is answered: the connection, the event, the status, the row *)
(* the handler found when the request arrived, and how many calls had been  *)
(* answered by then.                                                        *)

CallRequests ==
    {r \in Requests("post_profile") \cup Requests("put_progress") :
        /\ r.userId = "u1"
        /\ AuthClass(r) = "self"
        /\ BodyClass(r) \in {"avatar", "valid"}
        /\ r.kind = "put_progress" =>
                r.data.moduleId = Some("m1") /\ r.data.score # Some(0)}

InFlight == {c \in Conns : txn[c].pc = "progress"}

Call(c, req) ==
    [conn |-> c,
     userId |-> req.userId,
     data |-> req.data,
     status |-> out'.status,
     row0 |-> IF txn[c].pc = "idle" THEN SelectUser(users, req.userId)
              ELSE txn[c].user,
     since |-> IF txn[c].pc = "idle" THEN Len(hist) ELSE txn[c].since]

NextCalls ==
    \E c \in Conns, req \in CallRequests :
        \/ UpdateUserProfile(c, req) /\ UNCHANGED hist
        \/ /\ txn[c].pc = "idle" => Len(hist) + Cardinality(InFlight) < MaxCalls
           /\ UpdateUserProgress(c, req)
           /\ hist' = IF txn'[c] = Idle THEN Append(hist, Call(c, req))
                      ELSE hist

SpecCalls == Init /\ [][NextCalls]_vars

-----------------------------------------------------------------------------
(* Properties.                                                              *)

RECURSIVE SumOver(_, _)
SumOver(f, S) ==
    IF S = {} THEN 0
    ELSE LET x == CHOOSE y \in S : TRUE IN f[x] + SumOver(f, S \ {x})

\* The sum of the score fields of the completed entries of a progress dict.
CompletedScoreSum(progress) ==
    LET entries == {<<m, t>> \in Modules \X Topics :
                        m \in DOMAIN progress /\ t \in DOMAIN progress[m]}
        scoreOf == [e \in entries |->
                        IF progress[e[1]][e[2]].completed
                        THEN progress[e[1]][e[2]].score ELSE 0]
    IN  SumOver(scoreOf, entries)

\* The status a row holds for a topic, {} if it holds none.
StatusIn(row, data) ==
    TopicOf(row.progress, Val(data.moduleId), Val(data.topicId))

CompletedIn(row, data) == Get(StatusIn(row, data), "completed", FALSE)
CompletedAtIn(row, data) == Get(StatusIn(row, data), "completedAt", None)

\* The score an event asks to be credited.
ScoreOf(data) == IF data.score = None THEN 0 ELSE Val(data.score)

SameTopic(d1, d2) == d1.moduleId = d2.moduleId /\ d1.topicId = d2.topicId

\* Two progress calls of the same user have been answered, the user's row
\* being there when each arrived.
TwoCalls ==
    /\ Len(hist) = 2
    /\ hist[1].userId = hist[2].userId
    /\ hist[1].row0 # None
    /\ hist[2].row0 # None

\* C1: idempotent crediting.  When the same update {moduleId, topicId,
\* completed:true, score:s} is applied twice in sequence to an existing user
\* whose topic was not completed, totalScore ends s above where it started,
\* and the second application leaves it as the first left it.
C1_IdempotentCrediting ==
    ( /\ TwoCalls
      /\ hist[2].since = 1
      /\ hist[1].data = hist[2].data
      /\ hist[1].data.completed = Some(TRUE)
      /\ ~CompletedIn(Val(hist[1].row0), hist[1].data) )
    => /\ users[hist[1].userId].total_score
            = Val(hist[1].row0).total_score + ScoreOf(hist[1].data)
       /\ users[hist[1].userId].total_score = Val(hist[2].row0).total_score

\* C2: no double credit under concurrency.  When two calls on different
\* connections report the same topic of the same user completed, each with a
\* score, and the topic was not completed before, totalScore ends above its
\* initial value by exactly one of the two scores.
C2_NoDoubleCredit ==
    ( /\ TwoCalls
      /\ hist[1].conn # hist[2].conn
      /\ SameTopic(hist[1].data, hist[2].data)
      /\ hist[1].data.completed = Some(TRUE)
      /\ hist[2].data.completed = Some(TRUE)
      /\ hist[1].data.score # None
      /\ hist[2].data.score # None
      /\ ~CompletedIn(Val(hist[1].row0), hist[1].data) )
    => users[hist[1].userId].total_score - Val(hist[1].row0).total_score
            \in {ScoreOf(hist[1].data), ScoreOf(hist[2].data)}

C4_CreditAtMostOnce == \A k \in Keys : credits[k] <= 1

\* Two progress calls for the same topic of an existing user were answered,
\* a completed:false one among them.
C4_Witness ==
    /\ TwoCalls
    /\ SameTopic(hist[1].data, hist[2].data)
    /\ hist[1].data.completed = Some(TRUE)
    /\ hist[2].data.completed = Some(FALSE)
    /\ hist[1].data.score = Some(1)

C6_ScoreSum ==
    \A u \in DOMAIN users :
        users[u].total_score = CompletedScoreSum(users[u].progress)

\* Every user has a row and a well-formed progress update of a user, sent
\* with the user's own token, has just been answered.
C6_Witness ==
    /\ DOMAIN users = Users
    /\ out.kind = "put_progress"
    /\ out.auth = "self"
    /\ out.body = "valid"

\* C7: totalScore is monotone.  It is 0 in a row just created, never
\* negative, and no step decreases it.
C7_TotalScoreMonotone ==
    [][ \A u \in DOMAIN users' :
            /\ users'[u].total_score >= 0
            /\ u \notin DOMAIN users => users'[u].total_score = 0
            /\ u \in DOMAIN users
                => users'[u].total_score >= users[u].total_score
      ]_vars

\* A well-formed progress update with the owner's token has just been
\* answered while a row with an avatar exists.
C7_Witness ==
    /\ users # EmptyDict
    /\ out.kind = "put_progress"
    /\ out.auth = "self"
    /\ out.body = "valid"
    /\ \E u \in DOMAIN users : users[u].selected_avatar = Some("a1")

\* C8: unauthorized rejection.  Whatever the endpoint, a request whose valid
\* token names another user than the path is answered 403, and the handler
\* neither reads nor changes the table.
C8_UnauthorizedRejection ==
    (out.kind # "none" /\ out.auth = "other")
        => out.status = Unauthorized /\ ~out.changed /\ ~out.read

\* While one of the two users has a row, a profile POST sent with the valid
\* token of the user the path does not name has been answered 403.
C8_Witness ==
    /\ Cardinality(DOMAIN users) = 1
    /\ out.kind = "post_profile"
    /\ out.auth = "other"
    /\ out.status = Unauthorized

\* C9: guard ordering.  A request without a Bearer header is answered 401,
\* which is not the 403 of an unauthorized one, and the table is neither
\* read nor changed; no handler reads or changes the table unless the
\* access check has passed.
C9_GuardOrdering ==
    /\ Unauthenticated # Unauthorized
    /\ out.kind # "none" =>
        /\ out.auth \in {"absent", "basic"}
            => out.status = Unauthenticated /\ ~out.changed /\ ~out.read
        /\ (out.read \/ out.changed) => out.auth = "self"

\* A progress update with a header that is not a Bearer one has been
\* answered while rows exist.
C9_Witness ==
    /\ users # EmptyDict
    /\ out.kind = "put_progress"
    /\ out.auth = "basic"
    /\ out.status = Unauthenticated

\* C10: request validation.  An authorized progress update without moduleId,
\* topicId or completed is answered 400 and changes nothing; one with
\* non-empty moduleId and topicId and a boolean completed passes validation,
\* so that the handler goes on to read the user's row.
C10_RequestValidation ==
    (out.kind = "put_progress" /\ out.auth = "self") =>
        /\ out.body \in {"no_ids", "no_completed"}
            => out.status = InvalidRequest /\ ~out.changed
        /\ out.body = "valid" => out.read

\* The three columns a progress update writes.
Triple(row) ==
    [progress |-> row.progress, total_score |-> row.total_score,
     last_active_lesson |-> row.last_active_lesson]

\* C11: no partial writes.  Whatever a step does, and so after every
\* progress update that has returned or failed, the (progress, totalScore,
\* lastActiveLesson) of a row is the one from before the step, or it is in
\* all three fields the merge a progress update of that user computed from
\* the row it read.
C11_NoPartialWrites ==
    [][ \A u \in DOMAIN users :
            \/ Triple(users'[u]) = Triple(users[u])
            \/ \E c \in Conns :
                /\ txn[c].pc = "progress"
                /\ txn[c].req.userId = u
                /\ Triple(users'[u])
                     = Merge(Val(txn[c].user), txn[c].req.data, now)
      ]_vars

\* A well-formed progress update of the one user who has a row, sent with
\* that user's token, has failed with 500.
C11_Witness ==
    /\ Cardinality(DOMAIN users) = 1
    /\ out.kind = "put_progress"
    /\ out.auth = "self"
    /\ out.body = "valid"
    /\ out.status = InternalError
    /\ \E u \in DOMAIN users : users[u].selected_avatar = None

\* The progress call answered last.
LastCall == hist[Len(hist)]

\* The lesson an event names, as last_active_lesson holds it.
LessonOf(data) ==
    Some([moduleId |-> Val(data.moduleId), topicId |-> Val(data.topicId)])

\* C12: last-active always updates.  Once a valid, authorized progress
\* update of a user whose row was there has been answered, the row's
\* lastActiveLesson is the {moduleId, topicId} of that event, whatever its
\* completed and score were.
C12_LastActiveUpdates ==
    (Len(hist) >= 1 /\ LastCall.row0 # None)
    => users[LastCall.userId].last_active_lesson = LessonOf(LastCall.data)

\* The (module, topic) pairs a progress map has an entry for.
Entries(progress) ==
    UNION {{<<m, tp>> : tp \in DOMAIN progress[m]} : m \in DOMAIN progress}

\* C13: lazy structure.  When a progress update of an existing user is
\* answered for a (moduleId, topicId) the row had no entry for, the row has
\* exactly that one entry more and every entry it had is unchanged; and no
\* row ever holds an entry for a pair that no progress update named.
C13_LazyStructure ==
    [][ /\ ( /\ Len(hist') = Len(hist) + 1
             /\ hist'[Len(hist')].row0 # None
             /\ <<Val(hist'[Len(hist')].data.moduleId),
                  Val(hist'[Len(hist')].data.topicId)>>
                   \notin Entries(users[hist'[Len(hist')].userId].progress) )
           => LET h == hist'[Len(hist')]
                  before == users[h.userId].progress
                  after == users'[h.userId].progress
              IN  /\ Entries(after)
                       = Entries(before)
                           \cup {<<Val(h.data.moduleId), Val(h.data.topicId)>>}
                  /\ \A e \in Entries(before) :
                        after[e[1]][e[2]] = before[e[1]][e[2]]
        /\ \A u \in DOMAIN users' : \A e \in Entries(users'[u].progress) :
            \E i \in 1..Len(hist') :
                /\ hist'[i].userId = u
                /\ <<Val(hist'[i].data.moduleId), Val(hist'[i].data.topicId)>> = e
      ]_vars

\* C14: progress requires a profile.  A progress update that arrives while
\* its userId has no row is answered NotFound (404) and leaves the table as
\* it was; and a row comes into existence only in a step that answers a
\* profile POST.
C14_ProgressRequiresProfile ==
    [][ /\ (Len(hist') = Len(hist) + 1 /\ hist'[Len(hist')].row0 = None)
           => /\ hist'[Len(hist')].status = NotFound
              /\ users' = users
        /\ DOMAIN users' # DOMAIN users
           => /\ out'.kind = "post_profile"
              /\ out'.status = Ok
      ]_vars

\* A handler returned in this step with something to show for it.
Answered == out' # out \/ users' # users

\* C15: profile upsert branches.  A profile POST that comes to its INSERT
\* while its userId has no row creates the row with progress {}, totalScore
\* 0 and no lastActiveLesson and is answered 200, with or without a
\* selectedAvatar.  An authorized profile POST whose selectedAvatar is
\* missing or empty is answered 400 when its SELECT finds the row, and only
\* then, and the table is left as it was; such a request never goes on to
\* the UPDATE.
C15_ProfileUpsertBranches ==
    [][ /\ \A c \in Conns :
            ( /\ txn[c].pc = "profile"
              /\ txn'[c] = Idle
              /\ txn[c].user = None
              /\ txn[c].req.userId \notin DOMAIN users )
            => /\ txn[c].req.userId \in DOMAIN users'
               /\ Triple(users'[txn[c].req.userId])
                    = [progress |-> EmptyDict, total_score |-> 0,
                       last_active_lesson |-> None]
               /\ users'[txn[c].req.userId].selected_avatar
                    = txn[c].req.data.selectedAvatar
               /\ out'.kind = "post_profile"
               /\ out'.status = Ok
        /\ ( /\ Answered
             /\ out'.kind = "post_profile"
             /\ out'.auth = "self"
             /\ out'.body = "no_avatar" )
           => /\ out'.found => (out'.status = InvalidRequest /\ users' = users)
              /\ out'.status = InvalidRequest => out'.found
        /\ \A c \in Conns :
            (txn[c].pc = "idle" /\ txn'[c].pc = "profile"
                /\ txn'[c].user # None)
            => Truthy(txn'[c].req.data.selectedAvatar)
      ]_vars

\* A profile POST without selectedAvatar has created a row, and a later one
\* for that row, again without selectedAvatar, has been answered 400.
C15_Witness ==
    /\ out.kind = "post_profile"
    /\ out.auth = "self"
    /\ out.body = "no_avatar"
    /\ out.status = InvalidRequest
    /\ \A u \in DOMAIN users : users[u].selected_avatar = None
    /\ Cardinality(DOMAIN users) = 1

\* The score a row stores for the topic of an event; -1 if the row has no
\* entry for it.
StoredScore(row, data) == Get(StatusIn(row, data), "score", -1)

\* C16: score correction without re-credit.  Once a progress update of a
\* user whose row was there has been answered: if it reported an already
\* completed topic completed with a score s2, the stored score is s2 and
\* totalScore is what it was; if it carried no score, the topic's entry
\* stores the score it stored before (0 for a new entry) and totalScore is
\* what it was.
C16_ScoreCorrection ==
    (Len(hist) >= 1 /\ LastCall.row0 # None)
    => LET data == LastCall.data
           row0 == Val(LastCall.row0)
           row == users[LastCall.userId]
       IN  /\ ( /\ data.completed = Some(TRUE)
                /\ data.score # None
                /\ CompletedIn(row0, data) )
              => /\ StoredScore(row, data) = Val(data.score)
                 /\ row.total_score = row0.total_score
           /\ data.score = None
              => /\ StoredScore(row, data)
                      = Get(StatusIn(row0, data), "score", 0)
                 /\ row.total_score = row0.total_score

\* C17: credit fixed at first completion.  When a progress update moves a
\* topic of an existing user from not completed to completed, totalScore is
\* from then on the total before that update plus the score the update
\* carried (0 if it carried none): after that update, and after every later
\* update of the same topic, whatever it reports.
C17_CreditFixedAtFirstCompletion ==
    ( /\ Len(hist) >= 1
      /\ hist[1].row0 # None
      /\ hist[1].data.completed = Some(TRUE)
      /\ ~CompletedIn(Val(hist[1].row0), hist[1].data)
      /\ \A i \in 2..Len(hist) :
            /\ hist[i].userId = hist[1].userId
            /\ hist[i].since = i - 1
            /\ SameTopic(hist[1].data, hist[i].data) )
    => users[hist[1].userId].total_score
         = Val(hist[1].row0).total_score + ScoreOf(hist[1].data)

\* The row of u differs between this state and the next, or exists in one
\* only.
RowChanges(u) ==
    SelectUser(users', u) # SelectUser(users, u)

\* C18: cross-user independence.  A step changes the row of a user only
\* when it is the write of a handler serving a request addressed to that
\* userId, so an operation on one user leaves every field of every other
\* user's row as it was; and what a handler reads is the addressed row and
\* no other.  Each row therefore goes through the states it would go through
\* if its user's operations ran alone in the same order.
C18_CrossUserIndependence ==
    [][ /\ \A u \in Users :
            RowChanges(u)
            => \E c \in Conns :
                /\ txn[c].pc # "idle"
                /\ txn'[c] = Idle
                /\ txn[c].req.userId = u
        /\ \A c \in Conns :
            (txn[c].pc = "idle" /\ txn'[c].pc # "idle")
            => txn'[c].user
                 = IF txn'[c].req.userId \in DOMAIN users
                   THEN {users[txn'[c].req.userId]} ELSE {}
      ]_vars

\* u2's row was created first and never updated; u1's row was created
\* later, and a profile POST has since updated it.
C18_Witness ==
    /\ DOMAIN users = Users
    /\ users["u2"].created_at = 1
    /\ users["u2"].selected_avatar = None
    /\ users["u1"].created_at = 2
    /\ out.kind = "post_profile"
    /\ out.found
    /\ out.changed

\* C19: createdAt write-once.  A row's createdAt is the time of the profile
\* POST that created it, and no later step, of a profile POST or of a
\* progress update, changes it.
C19_CreatedAtWriteOnce ==
    [][ /\ \A u \in DOMAIN users :
            /\ u \in DOMAIN users'
            /\ users'[u].created_at = users[u].created_at
        /\ \A u \in DOMAIN users' \ DOMAIN users :
            /\ users'[u].created_at = now
            /\ out'.kind = "post_profile"
      ]_vars

\* A row created at time 1 has had its avatar updated by a profile POST
\* while the clock stood at 2: another handler still holds the row as it was
\* before, without an avatar.
C19_Witness ==
    /\ now = 2
    /\ \E c \in Conns :
        /\ txn[c].pc = "profile"
        /\ txn[c].user # None
        /\ Val(txn[c].user).selected_avatar # Some("a1")
        /\ Val(txn[c].user).created_at = 1
        /\ users[txn[c].req.userId].selected_avatar = Some("a1")
        /\ users[txn[c].req.userId].created_at = 1

\* C20: profile update frame.  When a profile POST for an existing row
\* succeeds, the step that writes it leaves the row's progress, totalScore
\* and lastActiveLesson as they are in the table at that moment, whatever
\* progress updates of the same user were handled since the POST read the
\* row.
C20_ProfileUpdateFrame ==
    [][ \A c \in Conns :
            ( /\ txn[c].pc = "profile"
              /\ txn[c].user # None
              /\ txn'[c] = Idle
              /\ out'.status = Ok )
            => /\ txn[c].req.userId \in DOMAIN users'
               /\ Triple(users'[txn[c].req.userId])
                    = Triple(users[txn[c].req.userId])
      ]_vars

\* A profile POST has updated an existing row, and a progress update of the
\* same user was answered between its SELECT and its UPDATE.
C20_Witness ==
    /\ out.kind = "post_profile"
    /\ out.status = Ok
    /\ out.found
    /\ out.during >= 1

====
